---- MODULE Spec2Model ----
(***************************************************************************)
(* A model of training/kd_train.py: the knowledge-distillation trainer of  *)
(* the cringe classifier.  The module holds one state machine per          *)
(* component of the program:                                               *)
(*                                                                         *)
(*   SpecAdapter   KDDataset.__getitem__  (raw record -> item)             *)
(*   SpecEval      evaluate_model, the ground-truth row of one sample      *)
(*   SpecLoad      load_jsonl                                              *)
(*   SpecTrain     main: trainer.train() ... tokenizer.save_pretrained()   *)
(*   SpecMetrics   evaluate_model, the sklearn metrics                     *)
(*   SpecKD        kd_loss                                                 *)
(*                                                                         *)
(* Number representation.  Probabilities of the data path (adapter,        *)
(* evaluator) are integers in tenths: 9 is 0.9, One is 1.0.  kd_loss uses  *)
(* exact numbers of the form n * 2^e2 * 5^e5 (see the section on kd_loss). *)
(***************************************************************************)
EXTENDS Integers, Sequences, FiniteSets, TLC

VARIABLES
    pc,             \* position of the component under study
    sample,         \* adapter / evaluator: the raw JSON record
    item,           \* adapter: the value __getitem__ returns (or a raise)
    threshold,      \* evaluator: positive_threshold, in tenths
    gtRow,          \* evaluator: this sample's row of hard_labels
    lines,          \* load_jsonl: the lines of the file
    pos,            \* load_jsonl: index of the next line the loop reads
    acc,            \* load_jsonl: the list the comprehension has built so far
    loaded,         \* load_jsonl: what the call gave its caller
    numEpochs,      \* main: args.epochs
    student,        \* main: the weights in trainer.model (0: pretrained,
                    \*       e: as they were at the end of epoch e)
    ckpts,          \* main: the checkpoints on disk, one per finished epoch
    best,           \* main: trainer.state best_metric / best_model_checkpoint
    outputs,        \* main: what the run has evaluated and persisted
    hard_labels,    \* evaluate_model: the ground truth matrix
    logits,         \* evaluate_model: predictions.predictions
    report,         \* evaluate_model: the metrics it returns
    kdTemperature,  \* kd_loss: temperature
    kdLogits,       \* kd_loss: student_logits of one example, in units of ln 2
    kdTeacher,      \* kd_loss: teacher_probs of the example
    kdLabels,       \* kd_loss: labels of the example
    kdScale,        \* kd_loss: the constant c of the rescaled call
    kdOut,          \* kd_loss: the values of the call on teacher_probs
    kdOutScaled     \* kd_loss: the values of the call on c * teacher_probs

dataVars == <<sample, item, threshold, gtRow>>

loadVars == <<lines, pos, acc, loaded>>

trainVars == <<numEpochs, student, ckpts, best, outputs>>

metricVars == <<hard_labels, logits, report>>

kdVars == <<kdTemperature, kdLogits, kdTeacher, kdLabels, kdScale, kdOut, kdOutScaled>>

vars == <<pc, dataVars, loadVars, trainVars, metricVars, kdVars>>

-----------------------------------------------------------------------------
(* Bounds of the model.                                                    *)

\* How many of the label keys (the first MaxKeys of LABEL_KEYS) the input
\* records may mention; the other keys are missing from every input record.
MaxKeys == 2

\* The longest input file, in lines.
MaxLines == 3

\* The largest --epochs.
MaxEpochs == 3

\* The largest evaluation set, in samples.
MaxRows == 2

-----------------------------------------------------------------------------
(* The label schema.                                                       *)

LABEL_KEYS ==
    << "humbleBragging", "excessiveEmojis", "engagementBait", "fakeStories",
       "companyCulture", "personalAnecdotes", "hiringStories",
       "basicDecencyPraising", "minorAchievements", "buzzwordOveruse",
       "linkedinCliches", "virtueSignaling", "professionalOversharing",
       "mundaneLifeLessons", "overall_cringe" >>

N == Len(LABEL_KEYS)

\* 1.0 in tenths
One == 10

-----------------------------------------------------------------------------
(* JSON values as Python sees them.  A dict is [t |-> "dict", m |-> f]     *)
(* with f a function from its keys; None is [t |-> "none"].  Strings,      *)
(* numbers and booleans are themselves.                                    *)

PyDict(f) == [t |-> "dict", m |-> f]

EmptyDict == PyDict([k \in {} |-> 0])

PyNone == [t |-> "none"]

\* d.get(k, default) on a dict d
DictGet(d, k, default) == IF k \in DOMAIN d.m THEN d.m[k] ELSE default

\* Whether x.get(...) can be called at all: None has no attribute get.
HasGet(x) == x.t = "dict"

\* Python truthiness of an optional dict: None and {} are falsy.
Truthy(x) == x.t = "dict" /\ DOMAIN x.m # {}

\* float(v) of a JSON number: the same number (tenths stay tenths).
PyFloat(v) == v

\* torch.tensor(xs, dtype=torch.float32): every entry becomes the float32
\* nearest to it, which is a value of another type than the Python float.
float32(v) == [f32 |-> v]

Tensor32(xs) == [i \in DOMAIN xs |-> float32(xs[i])]

-----------------------------------------------------------------------------
(* KDDataset.__getitem__                                                   *)

\* The raise of a Python exception out of a function.
Raised(what) == [raised |-> TRUE, error |-> what]

\* A variant without the default: sample.get("post")
post_default_none == PyNone

\* sample.get("post", {})
post_default == EmptyDict

\* .get("text", "")
text_default == ""

\* sample.get("teacher", {}) and .get("labels", {})
teacher_default == EmptyDict

\* A variant with another default: labels.get(label, 0.5)
prob_default_half == One \div 2

\* labels.get(label, 0.0)
prob_default == 0

\* [float(labels.get(label, 0.0)) for label in LABEL_KEYS]
teacher_probs_of(labels) ==
    [i \in 1..N |-> PyFloat(DictGet(labels, LABEL_KEYS[i], prob_default))]

\* hard_labels = sample.get("human_labels"); if hard_labels:
has_hard_labels(hl) == Truthy(hl)

\* [1 if hard_labels.get(label) else 0 for label in LABEL_KEYS]
hard_vector(hl) ==
    [i \in 1..N |-> IF DictGet(hl, LABEL_KEYS[i], FALSE) THEN One ELSE 0]

\* item["labels"]
supervision_target(hl, teacher_probs) ==
    IF has_hard_labels(hl)
    THEN Tensor32(hard_vector(hl))
    ELSE Tensor32(teacher_probs)

\* The whole of __getitem__ (the tokenizer is an opaque text -> tensors map;
\* the item keeps the text it was given).
getitem(s) ==
    LET post == DictGet(s, "post", post_default) IN
    IF ~HasGet(post) THEN Raised("AttributeError") ELSE
    LET text == DictGet(post, "text", text_default)
        teacher == DictGet(s, "teacher", teacher_default)
    IN
    IF ~HasGet(teacher) THEN Raised("AttributeError") ELSE
    LET labels == DictGet(teacher, "labels", teacher_default) IN
    IF ~HasGet(labels) THEN Raised("AttributeError") ELSE
    LET teacher_probs == teacher_probs_of(labels)
        hl == DictGet(s, "human_labels", PyNone)
    IN
    [ raised |-> FALSE,
      text |-> text,
      teacher_list |-> teacher_probs,
      teacher_probs |-> Tensor32(teacher_probs),
      labels |-> supervision_target(hl, teacher_probs) ]

-----------------------------------------------------------------------------
(* The input records.                                                      *)

KeysUsed == {LABEL_KEYS[i] : i \in 1..MaxKeys}

\* Teacher scores a file may hold, in tenths: in range, on the reporting
\* threshold, and out of range (nothing validates the file).
ProbValues == {-2, 0, 3, 5, 9, 12}

\* All functions from a subset of S to T
PartialFns(S, T) == UNION {[D -> T] : D \in SUBSET S}

PostChoices == {"missing", "empty", "text"}

TeacherChoices ==
    {[kind |-> "missing"], [kind |-> "empty"]}
    \cup {[kind |-> "labels", labels |-> f] : f \in PartialFns(KeysUsed, ProbValues)}

HumanChoices ==
    {[kind |-> "missing"]}
    \cup {[kind |-> "dict", marks |-> f] : f \in PartialFns(KeysUsed, BOOLEAN)}

MakeSample(p, tch, h) ==
    LET present == (IF p = "missing" THEN {} ELSE {"post"})
                   \cup (IF tch.kind = "missing" THEN {} ELSE {"teacher"})
                   \cup (IF h.kind = "missing" THEN {} ELSE {"human_labels"})
        value(k) ==
            CASE k = "post" ->
                    IF p = "empty" THEN EmptyDict
                    ELSE PyDict([f \in {"text"} |-> "Excited to announce"])
              [] k = "teacher" ->
                    IF tch.kind = "empty" THEN EmptyDict
                    ELSE PyDict([f \in {"labels"} |-> PyDict(tch.labels)])
              [] k = "human_labels" -> PyDict(h.marks)
    IN PyDict([k \in present |-> value(k)])

Samples ==
    {MakeSample(p, tch, h) : p \in PostChoices, tch \in TeacherChoices, h \in HumanChoices}

NoItem == [raised |-> FALSE, none |-> TRUE]

NoRow == <<>>

\* The variables of a component that is not the one under study
IdleData == sample = EmptyDict /\ item = NoItem /\ threshold = 0 /\ gtRow = NoRow

IdleLoad == lines = <<>> /\ pos = 0 /\ acc = <<>> /\ loaded = [kind |-> "idle"]

NoBest == [metric |-> "None", checkpoint |-> 0]

NoOutputs == [evaluated |-> -1, saved |-> -1, metrics_file |-> FALSE, tokenizer |-> FALSE]

NoReport == [raised |-> FALSE, none |-> TRUE]

IdleMetrics == hard_labels = <<>> /\ logits = <<>> /\ report = NoReport

NoLoss == [none |-> TRUE]

IdleKD ==
    /\ kdTemperature = 0
    /\ kdLogits = <<>>
    /\ kdTeacher = <<>>
    /\ kdLabels = <<>>
    /\ kdScale = NoLoss
    /\ kdOut = NoLoss
    /\ kdOutScaled = NoLoss

IdleTrain ==
    /\ numEpochs = 0
    /\ student = 0
    /\ ckpts = <<>>
    /\ best = NoBest
    /\ outputs = NoOutputs

-----------------------------------------------------------------------------
(* SpecAdapter: one record goes through __getitem__.                       *)

InitAdapter ==
    /\ pc = "adapter"
    /\ sample \in Samples
    /\ item = NoItem
    /\ threshold = 0
    /\ gtRow = NoRow
    /\ IdleLoad
    /\ IdleTrain
    /\ IdleMetrics
    /\ IdleKD

GetItem ==
    /\ pc = "adapter"
    /\ pc' = "adapter_done"
    /\ item' = getitem(sample)
    /\ UNCHANGED <<sample, threshold, gtRow>>
    /\ UNCHANGED <<loadVars, trainVars, metricVars, kdVars>>

NextAdapter == GetItem

SpecAdapter == InitAdapter /\ [][NextAdapter]_vars

-----------------------------------------------------------------------------
(* Reading a raw record, for the statements below.                         *)

HasField(s, k) == k \in DOMAIN s.m

\* The labels mapping of the record's teacher, {} when any step is missing
StoredLabels(s) ==
    IF HasField(s, "teacher") /\ HasField(s.m["teacher"], "labels")
    THEN s.m["teacher"].m["labels"].m
    ELSE [k \in {} |-> 0]

HasScore(s, i) == LABEL_KEYS[i] \in DOMAIN StoredLabels(s)

StoredScore(s, i) == StoredLabels(s)[LABEL_KEYS[i]]

\* Human review marked label i
HumanMarked(s, i) ==
    /\ HasField(s, "human_labels")
    /\ LABEL_KEYS[i] \in DOMAIN s.m["human_labels"].m
    /\ s.m["human_labels"].m[LABEL_KEYS[i]]

InUnit(x) == 0 <= x /\ x <= One

AdapterDone == pc = "adapter_done"

-----------------------------------------------------------------------------
(* Statements about the adapter.                                           *)

\* C1 (as claimed): whenever human_labels is present, whatever mapping it
\* is, every entry of item["labels"] is 0.0 or 1.0; whenever it is absent,
\* item["labels"] equals item["teacher_probs"] entry by entry.
C1_TargetBinaryWhenPresent ==
    (AdapterDone /\ ~item.raised) =>
        /\ HasField(sample, "human_labels") =>
              \A i \in 1..N : item.labels[i] \in {float32(0), float32(One)}
        /\ ~HasField(sample, "human_labels") =>
              item.labels = item.teacher_probs

\* C2 (as claimed): teacher_probs has N entries, entry i is the score
\* stored under LABEL_KEYS[i] (0.0 when the key is missing), and every
\* entry lies in [0,1], for every input record.
C2_ProbsAlwaysInUnit ==
    (AdapterDone /\ ~item.raised) =>
        /\ Len(item.teacher_list) = N
        /\ \A i \in 1..N :
              /\ item.teacher_list[i] =
                    (IF HasScore(sample, i) THEN StoredScore(sample, i) ELSE 0)
              /\ InUnit(item.teacher_list[i])

\* C2 (amended): teacher_probs has N entries, entry i is the score stored
\* under LABEL_KEYS[i] (0.0 when the key is missing), the tensor holds the
\* float32 of the same entries, and the entries lie in [0,1] when every
\* stored score does: the adapter copies the scores and does not clamp.
C2_ProbsCopiedInOrder ==
    (AdapterDone /\ ~item.raised) =>
        /\ Len(item.teacher_list) = N
        /\ DOMAIN item.teacher_probs = 1..N
        /\ \A i \in 1..N :
              /\ item.teacher_list[i] =
                    (IF HasScore(sample, i) THEN StoredScore(sample, i) ELSE 0)
              /\ item.teacher_probs[i] = float32(item.teacher_list[i])
        /\ (\A i \in 1..N : HasScore(sample, i) => InUnit(StoredScore(sample, i)))
              => \A i \in 1..N : InUnit(item.teacher_list[i])

\* A record that stores a score for the first label and none for the
\* second went through the adapter.
C2_Witness ==
    /\ AdapterDone
    /\ ~item.raised
    /\ HasScore(sample, 1) /\ StoredScore(sample, 1) = 9
    /\ ~HasScore(sample, 2)
    /\ item.teacher_list[1] = 9
    /\ item.teacher_list[2] = 0

\* C5: whatever subset of post, post.text, teacher, teacher.labels, the
\* label keys and human_labels is missing, __getitem__ returns an item and
\* does not raise; a missing text reads as "" and a missing score as 0.0.
C5_AdapterNeverRaises ==
    AdapterDone =>
        /\ ~item.raised
        /\ ~(HasField(sample, "post") /\ HasField(sample.m["post"], "text"))
              => item.text = ""
        /\ \A i \in 1..N : ~HasScore(sample, i) => item.teacher_list[i] = 0

\* The record {} (every field missing) went through the adapter.
C5_Witness ==
    /\ AdapterDone
    /\ DOMAIN sample.m = {}
    /\ ~item.raised
    /\ item.text = ""

-----------------------------------------------------------------------------
(* evaluate_model: the ground truth row of one sample.                     *)

\* A variant with the strict comparison: ... > threshold
teacher_exceeds(score, thr) == score > thr

\* sample.get("teacher", {}).get("labels", {}).get(label, 0) >= threshold
teacher_meets(score, thr) == score >= thr

\* [1 if sample.get("human_labels", {}).get(label) else int(... >= threshold)
\*  for label in LABEL_KEYS]
hard_labels_row(s, thr) ==
    LET human == DictGet(s, "human_labels", EmptyDict)
        teacher == DictGet(s, "teacher", EmptyDict)
    IN
    IF ~HasGet(human) \/ ~HasGet(teacher) THEN Raised("AttributeError") ELSE
    LET labels == DictGet(teacher, "labels", EmptyDict) IN
    IF ~HasGet(labels) THEN Raised("AttributeError") ELSE
    [ raised |-> FALSE,
      row |-> [i \in 1..N |->
                 IF DictGet(human, LABEL_KEYS[i], FALSE) THEN 1
                 ELSE IF teacher_meets(DictGet(labels, LABEL_KEYS[i], 0), thr)
                      THEN 1 ELSE 0] ]

\* --positive_threshold, in tenths (default 0.5)
Thresholds == {3, 5}

EvalSamples ==
    {MakeSample("text", tch, h) : tch \in TeacherChoices, h \in HumanChoices}

InitEval ==
    /\ pc = "eval"
    /\ sample \in EvalSamples
    /\ threshold \in Thresholds
    /\ item = NoItem
    /\ gtRow = NoRow
    /\ IdleLoad
    /\ IdleTrain
    /\ IdleMetrics
    /\ IdleKD

EvalRow ==
    /\ pc = "eval"
    /\ pc' = "eval_done"
    /\ gtRow' = hard_labels_row(sample, threshold)
    /\ UNCHANGED <<sample, item, threshold>>
    /\ UNCHANGED <<loadVars, trainVars, metricVars, kdVars>>

NextEval == EvalRow

SpecEval == InitEval /\ [][NextEval]_vars

EvalDone == pc = "eval_done"

\* The teacher score of label i as the evaluator reads it (0 when missing)
ScoreOrZero(s, i) == IF HasScore(s, i) THEN StoredScore(s, i) ELSE 0

\* C3: ground truth entry i is 1 exactly when human review marked label i
\* or the teacher score of label i is at least the threshold, and 0
\* otherwise; the row is binary, never the raw score.
C3_GroundTruthIsMarkOrThreshold ==
    EvalDone =>
        /\ ~gtRow.raised
        /\ DOMAIN gtRow.row = 1..N
        /\ \A i \in 1..N :
              /\ gtRow.row[i] \in {0, 1}
              /\ gtRow.row[i] = 1 <=>
                    (HumanMarked(sample, i) \/ ScoreOrZero(sample, i) >= threshold)

\* A sample with no human mark on label 1 and a teacher score exactly on
\* the threshold got ground truth 1 there, and 0 on a label scored below.
C3_Witness ==
    /\ EvalDone
    /\ ~HumanMarked(sample, 1)
    /\ ScoreOrZero(sample, 1) = threshold
    /\ gtRow.row[1] = 1
    /\ ScoreOrZero(sample, 2) = 3 /\ threshold = 5
    /\ gtRow.row[2] = 0

\* C4 (as claimed): for a sample whose human_labels are present (here: a
\* mapping with at least one entry), ground truth entry i is the human
\* label of i (1 if marked true, 0 otherwise) whatever the teacher score.
C4_HumanLabelsDecideAlone ==
    (/\ EvalDone
     /\ ~gtRow.raised
     /\ HasField(sample, "human_labels")
     /\ Truthy(sample.m["human_labels"])) =>
        \A i \in 1..N : gtRow.row[i] = (IF HumanMarked(sample, i) THEN 1 ELSE 0)

-----------------------------------------------------------------------------
(* load_jsonl.  A line is the sequence of its characters, without the line *)
(* end.  The characters are " " (whitespace), the two characters of the    *)
(* JSON text {}, the digit 1 and the letter x.                             *)

IsSpace(c) == c = " "

\* str.strip(): drop whitespace at both ends
RECURSIVE LStrip(_)
LStrip(cs) ==
    IF cs # <<>> /\ IsSpace(Head(cs)) THEN LStrip(Tail(cs)) ELSE cs

RECURSIVE RStrip(_)
RStrip(cs) ==
    IF cs # <<>> /\ IsSpace(cs[Len(cs)]) THEN RStrip(SubSeq(cs, 1, Len(cs) - 1)) ELSE cs

Strip(cs) == RStrip(LStrip(cs))

\* json.loads(line): whitespace around the document is skipped; the
\* documents this alphabet can spell are {} and 1; anything else, the empty
\* text included, is a JSONDecodeError.
json_loads(cs) ==
    LET doc == Strip(cs) IN
    CASE doc = <<"{", "}">> -> [ok |-> TRUE, value |-> EmptyDict]
      [] doc = <<"1">>      -> [ok |-> TRUE, value |-> [t |-> "num", v |-> 1]]
      [] OTHER              -> [ok |-> FALSE]

\* A variant without the filter: every line goes to json.loads
keeps_every_line(line) == TRUE

\* the filter of the comprehension: if line.strip()
keeps_line(line) == Strip(line) # <<>>

LineSet ==
    { <<>>, <<" ">>, <<"{", "}">>, <<" ", "1", " ">>, <<"x">>, <<"{", "}", " ", "1">> }

RECURSIVE SeqsUpTo(_, _)
SeqsUpTo(S, n) ==
    IF n = 0 THEN {<<>>}
    ELSE LET shorter == SeqsUpTo(S, n - 1)
         IN shorter \cup {Append(q, x) : q \in shorter, x \in S}

InitLoad ==
    /\ pc = "load"
    /\ lines \in SeqsUpTo(LineSet, MaxLines)
    /\ pos = 1
    /\ acc = <<>>
    /\ loaded = [kind |-> "running"]
    /\ IdleData
    /\ IdleTrain
    /\ IdleMetrics
    /\ IdleKD

\* The comprehension meets a line that strips to nothing and drops it.
SkipBlank ==
    /\ pc = "load"
    /\ pos <= Len(lines)
    /\ ~keeps_line(lines[pos])
    /\ pos' = pos + 1
    /\ UNCHANGED <<pc, lines, acc, loaded>>
    /\ UNCHANGED <<dataVars, trainVars, metricVars, kdVars>>

\* The comprehension parses a line and appends its value.
ParseLine ==
    /\ pc = "load"
    /\ pos <= Len(lines)
    /\ keeps_line(lines[pos])
    /\ json_loads(lines[pos]).ok
    /\ acc' = Append(acc, json_loads(lines[pos]).value)
    /\ pos' = pos + 1
    /\ UNCHANGED <<pc, lines, loaded>>
    /\ UNCHANGED <<dataVars, trainVars, metricVars, kdVars>>

\* json.loads raises: the exception leaves load_jsonl, the list is lost.
RaiseBadLine ==
    /\ pc = "load"
    /\ pos <= Len(lines)
    /\ keeps_line(lines[pos])
    /\ ~json_loads(lines[pos]).ok
    /\ pc' = "load_raised"
    /\ acc' = <<>>
    /\ loaded' = [kind |-> "raised", error |-> "JSONDecodeError", line |-> pos]
    /\ UNCHANGED <<lines, pos>>
    /\ UNCHANGED <<dataVars, trainVars, metricVars, kdVars>>

\* The file is exhausted: the list is returned.
ReturnRecords ==
    /\ pc = "load"
    /\ pos > Len(lines)
    /\ pc' = "load_returned"
    /\ loaded' = [kind |-> "returned", records |-> acc]
    /\ UNCHANGED <<lines, pos, acc>>
    /\ UNCHANGED <<dataVars, trainVars, metricVars, kdVars>>

NextLoad == SkipBlank \/ ParseLine \/ RaiseBadLine \/ ReturnRecords

SpecLoad == InitLoad /\ [][NextLoad]_vars

\* Reading the file, for the statements below.
ValidJson(line) ==
    \/ \E k \in 0..Len(line) : \E j \in 0..Len(line) :
          /\ k + 2 + j = Len(line)
          /\ \A i \in 1..k : line[i] = " "
          /\ line[k + 1] = "{" /\ line[k + 2] = "}"
          /\ \A i \in (k + 3)..Len(line) : line[i] = " "
    \/ \E k \in 0..Len(line) :
          /\ k + 1 <= Len(line)
          /\ \A i \in 1..k : line[i] = " "
          /\ line[k + 1] = "1"
          /\ \A i \in (k + 2)..Len(line) : line[i] = " "

Blank(line) == \A i \in 1..Len(line) : line[i] = " "

NonBlankIndices == {i \in 1..Len(lines) : ~Blank(lines[i])}

LoadEnded == pc \in {"load_returned", "load_raised"}

\* C6 (as claimed): a file with a line that is not valid JSON raises and
\* returns nothing; no line is skipped, so a load that returns gives one
\* record per line of the file.
C6_OneRecordPerLine ==
    LoadEnded =>
        /\ (\E i \in 1..Len(lines) : ~ValidJson(lines[i])) => loaded.kind = "raised"
        /\ loaded.kind = "returned" => Len(loaded.records) = Len(lines)

\* C6 (amended): lines that are empty or all whitespace are skipped
\* silently.  The load raises exactly when some other line is not valid
\* JSON, at the first such line, reading no further and returning nothing;
\* a load that returns gives one record per non-blank line, in file order.
C6_OneRecordPerNonBlankLine ==
    /\ LoadEnded =>
          /\ loaded.kind = "raised" <=>
                \E i \in NonBlankIndices : ~ValidJson(lines[i])
          /\ loaded.kind = "raised" =>
                /\ acc = <<>>
                /\ pos = loaded.line
                /\ ~Blank(lines[pos]) /\ ~ValidJson(lines[pos])
                /\ \A i \in NonBlankIndices : i < pos => ValidJson(lines[i])
          /\ loaded.kind = "returned" =>
                /\ Len(loaded.records) = Cardinality(NonBlankIndices)
                /\ \A k \in 1..Len(loaded.records) :
                      \E i \in NonBlankIndices :
                         /\ Cardinality({j \in NonBlankIndices : j <= i}) = k
                         /\ loaded.records[k] = json_loads(lines[i]).value
    /\ ~LoadEnded => loaded.kind \in {"running", "idle"}

\* A file of a blank line between two JSON lines was loaded: two records,
\* in file order.
C6_Witness ==
    /\ pc = "load_returned"
    /\ Len(lines) = 3
    /\ ~Blank(lines[1]) /\ Blank(lines[2]) /\ ~Blank(lines[3])
    /\ lines[1] # lines[3]
    /\ Len(loaded.records) = 2
    /\ loaded.records[1] = EmptyDict
    /\ loaded.records[2] = [t |-> "num", v |-> 1]


-----------------------------------------------------------------------------
(* main: trainer.train(), trainer.evaluate(), evaluate_model, save_model,  *)
(* tokenizer.save_pretrained.  The Trainer is the transformers library's;  *)
(* the model follows what it does under the TrainingArguments main gives   *)
(* it: at every epoch end it evaluates (evaluation_strategy="epoch") and   *)
(* saves a checkpoint (save_strategy="epoch"), keeping in its state the    *)
(* best metric seen and the checkpoint that had it; at the end of train()  *)
(* it loads that checkpoint when load_best_model_at_end is set.  No        *)
(* save_total_limit is given, so no checkpoint is deleted.                 *)

\* A variant with the library default: load_best_model_at_end=False
load_best_model_off == FALSE

\* TrainingArguments(load_best_model_at_end=True, ...)
load_best_model_at_end == TRUE

\* TrainingArguments(metric_for_best_model="eval_loss", ...)
metric_for_best_model == "eval_loss"

\* TrainingArguments(greater_is_better=False, ...)
greater_is_better == FALSE

\* Validation losses and macro-F1 scores an epoch may end with
LossValues == {1, 2, 3}

F1Values == {4, 8}

\* The metric of a checkpoint the Trainer compares
metric_of(ck) == IF metric_for_best_model = "eval_loss" THEN ck.eval_loss ELSE ck.macro_f1

\* operator = np.greater if greater_is_better else np.less
is_better(value, than) == IF greater_is_better THEN value > than ELSE value < than

InitTrain ==
    /\ pc = "train"
    /\ numEpochs \in 0..MaxEpochs
    /\ student = 0
    /\ ckpts = <<>>
    /\ best = NoBest
    /\ outputs = NoOutputs
    /\ IdleData
    /\ IdleLoad
    /\ IdleMetrics
    /\ IdleKD

\* One epoch of trainer.train(): the weights move, the epoch-end evaluation
\* measures eval_loss, the checkpoint is written and the best one tracked.
\* macro_f1 is the score evaluate_model would give these weights; the
\* Trainer never sees it.
TrainEpoch ==
    /\ pc = "train"
    /\ Len(ckpts) < numEpochs
    /\ \E loss \in LossValues, f1 \in F1Values :
          LET e == Len(ckpts) + 1
              ck == [model |-> e, eval_loss |-> loss, macro_f1 |-> f1]
          IN
          /\ student' = e
          /\ ckpts' = Append(ckpts, ck)
          /\ best' = IF best.checkpoint = 0 \/ is_better(metric_of(ck), best.metric)
                     THEN [metric |-> metric_of(ck), checkpoint |-> e]
                     ELSE best
    /\ UNCHANGED <<pc, numEpochs, outputs>>
    /\ UNCHANGED <<dataVars, loadVars, metricVars, kdVars>>

\* The end of trainer.train(): load the best checkpoint if asked to.
EndTrain ==
    /\ pc = "train"
    /\ Len(ckpts) = numEpochs
    /\ pc' = "evaluate"
    /\ student' = IF load_best_model_at_end /\ best.checkpoint # 0
                  THEN ckpts[best.checkpoint].model
                  ELSE student
    /\ UNCHANGED <<numEpochs, ckpts, best, outputs>>
    /\ UNCHANGED <<dataVars, loadVars, metricVars, kdVars>>

\* eval_metrics = trainer.evaluate(); print("Validation loss:", ...)
Evaluate ==
    /\ pc = "evaluate"
    /\ pc' = "evaluate_model"
    /\ UNCHANGED trainVars
    /\ UNCHANGED <<dataVars, loadVars, metricVars, kdVars>>

\* metrics = evaluate_model(trainer, val_dataset, ...); json.dump(metrics)
EvaluateModel ==
    /\ pc = "evaluate_model"
    /\ pc' = "save_model"
    /\ outputs' = [outputs EXCEPT !.evaluated = student, !.metrics_file = TRUE]
    /\ UNCHANGED <<numEpochs, student, ckpts, best>>
    /\ UNCHANGED <<dataVars, loadVars, metricVars, kdVars>>

\* trainer.save_model(args.output)
SaveModel ==
    /\ pc = "save_model"
    /\ pc' = "save_tokenizer"
    /\ outputs' = [outputs EXCEPT !.saved = student]
    /\ UNCHANGED <<numEpochs, student, ckpts, best>>
    /\ UNCHANGED <<dataVars, loadVars, metricVars, kdVars>>

\* tokenizer.save_pretrained(args.output)
SaveTokenizer ==
    /\ pc = "save_tokenizer"
    /\ pc' = "main_done"
    /\ outputs' = [outputs EXCEPT !.tokenizer = TRUE]
    /\ UNCHANGED <<numEpochs, student, ckpts, best>>
    /\ UNCHANGED <<dataVars, loadVars, metricVars, kdVars>>

NextTrain ==
    TrainEpoch \/ EndTrain \/ Evaluate \/ EvaluateModel \/ SaveModel \/ SaveTokenizer

SpecTrain == InitTrain /\ [][NextTrain]_vars

LowestLoss(e) ==
    /\ e \in 1..Len(ckpts)
    /\ \A k \in 1..Len(ckpts) : ckpts[e].eval_loss <= ckpts[k].eval_loss

\* C7: at the end of the run the model that evaluate_model scored and that
\* save_model persisted is the checkpoint with the lowest validation loss
\* of all epochs; the tokenizer is persisted with it, after it, at the end
\* of the run.  (A run of no epochs has no checkpoint and keeps the
\* pretrained weights.)
C7_BestCheckpointByLowestLoss ==
    /\ pc = "main_done" =>
          /\ outputs.tokenizer /\ outputs.metrics_file
          /\ outputs.saved = outputs.evaluated
          /\ numEpochs >= 1 => LowestLoss(outputs.saved)
          /\ numEpochs = 0 => outputs.saved = 0
    /\ outputs.tokenizer => (pc = "main_done" /\ outputs.saved # -1)
    /\ outputs.saved # -1 => outputs.evaluated = outputs.saved

\* A run ended whose persisted checkpoint is neither the last epoch's nor
\* the one with the best macro-F1: the lowest loss decided.
C7_Witness ==
    /\ pc = "main_done"
    /\ numEpochs = MaxEpochs
    /\ outputs.saved \in 1..(numEpochs - 1)
    /\ \E k \in 1..numEpochs : ckpts[k].macro_f1 > ckpts[outputs.saved].macro_f1
    /\ ckpts[numEpochs].eval_loss > ckpts[outputs.saved].eval_loss

-----------------------------------------------------------------------------
(* evaluate_model: from logits to the metrics.  Fractions are exact:       *)
(* [num |-> n, den |-> d] in lowest terms, d > 0.                          *)

RECURSIVE GCD(_, _)
GCD(a, b) == IF b = 0 THEN a ELSE GCD(b, a % b)

Frac(n, d) == LET g == GCD(n, d) IN [num |-> n \div g, den |-> d \div g]

FracAdd(x, y) == Frac(x.num * y.den + y.num * x.den, x.den * y.den)

FracOne == Frac(1, 1)

FracZero == Frac(0, 1)

\* Logits the student may give a cell: sigmoid(-2) = 0.119.., sigmoid(0) = 0.5
LogitValues == {-2, 0}

\* torch.sigmoid, in tenths rounded down, on the logits above
sigmoid(x) == IF x < 0 THEN 1 ELSE 5

\* (probs >= threshold).astype(int)
hard_pred(prob, thr) == IF prob >= thr THEN 1 ELSE 0

hard_preds_of(lg, thr) ==
    [r \in DOMAIN lg |-> [i \in 1..N |-> hard_pred(sigmoid(lg[r][i]), thr)]]

\* A variant with zero_division=1
zero_division_one == FracOne

\* sklearn's zero_division=0: the value of a metric whose denominator is 0
zero_division == FracZero

true_pos(yt, yp, i) == Cardinality({r \in DOMAIN yt : yt[r][i] = 1 /\ yp[r][i] = 1})

false_pos(yt, yp, i) == Cardinality({r \in DOMAIN yt : yt[r][i] = 0 /\ yp[r][i] = 1})

false_neg(yt, yp, i) == Cardinality({r \in DOMAIN yt : yt[r][i] = 1 /\ yp[r][i] = 0})

Ratio(n, d) == IF d = 0 THEN zero_division ELSE Frac(n, d)

\* one row of classification_report(..., output_dict=True)
label_report(yt, yp, i) ==
    LET tp == true_pos(yt, yp, i)
        fp == false_pos(yt, yp, i)
        fn == false_neg(yt, yp, i)
    IN [ precision |-> Ratio(tp, tp + fp),
         recall    |-> Ratio(tp, tp + fn),
         f1        |-> Ratio(2 * tp, 2 * tp + fp + fn),
         support   |-> tp + fn ]

RECURSIVE SumOver(_, _)
SumOver(f, n) == IF n = 0 THEN FracZero ELSE FracAdd(SumOver(f, n - 1), f[n])

\* average="macro": the unweighted mean over the columns of the matrix
macro_average(values) == Frac(SumOver(values, N).num, SumOver(values, N).den * N)

evaluate_metrics(yt, lg, thr) ==
    LET yp == hard_preds_of(lg, thr)
        per == [i \in 1..N |-> label_report(yt, yp, i)]
    IN [ raised    |-> FALSE,
         hard_preds |-> yp,
         macro_f1  |-> macro_average([i \in 1..N |-> per[i].f1]),
         precision |-> macro_average([i \in 1..N |-> per[i].precision]),
         recall    |-> macro_average([i \in 1..N |-> per[i].recall]),
         per_label |-> per ]

\* The labels whose cells vary in the evaluation sets of the model; every
\* other label has no positive and a negative logit in every sample.
ScoredLabels == {1, N}

GroundTruthRows ==
    {[i \in 1..N |-> IF i \in ScoredLabels THEN f[i] ELSE 0] : f \in [ScoredLabels -> {0, 1}]}

LogitRows ==
    {[i \in 1..N |-> IF i \in ScoredLabels THEN f[i] ELSE -2] : f \in [ScoredLabels -> LogitValues]}

InitMetrics ==
    /\ pc = "metrics"
    /\ \E n \in 1..MaxRows :
          /\ hard_labels \in [1..n -> GroundTruthRows]
          /\ logits \in [1..n -> LogitRows]
    /\ report = NoReport
    /\ threshold = 5
    /\ sample = EmptyDict /\ item = NoItem /\ gtRow = NoRow
    /\ IdleLoad
    /\ IdleTrain
    /\ IdleKD

ComputeMetrics ==
    /\ pc = "metrics"
    /\ pc' = "metrics_done"
    /\ report' = evaluate_metrics(hard_labels, logits, threshold)
    /\ UNCHANGED <<hard_labels, logits>>
    /\ UNCHANGED <<dataVars, loadVars, trainVars, kdVars>>

NextMetrics == ComputeMetrics

SpecMetrics == InitMetrics /\ [][NextMetrics]_vars

MetricsDone == pc = "metrics_done"

Positives(i) == Cardinality({r \in DOMAIN hard_labels : hard_labels[r][i] = 1})

\* C8: when the hard predictions equal the ground truth, every label with
\* a positive in the ground truth has precision = recall = F1 = 1, every
\* label without one has precision 0 and recall 0 (nothing raises), and
\* macro-F1 is the mean of the per-label F1 over all N labels, those of
\* zero support included: the number of labels with a positive, over N.
\* For any predictions, N times macro-F1 is the sum of the per-label F1.
C8_PerfectPredictionMetrics ==
    MetricsDone =>
        /\ ~report.raised
        /\ FracAdd(FracZero, [num |-> report.macro_f1.num * N, den |-> report.macro_f1.den])
             = SumOver([i \in 1..N |-> report.per_label[i].f1], N)
        /\ report.hard_preds = hard_labels =>
              /\ \A i \in 1..N :
                    /\ Positives(i) > 0 =>
                          /\ report.per_label[i].precision = FracOne
                          /\ report.per_label[i].recall = FracOne
                          /\ report.per_label[i].f1 = FracOne
                    /\ Positives(i) = 0 =>
                          /\ report.per_label[i].precision = FracZero
                          /\ report.per_label[i].recall = FracZero
              /\ report.macro_f1.num * N
                   = Cardinality({i \in 1..N : Positives(i) > 0}) * report.macro_f1.den

\* Predictions equal to a ground truth with a positive for the first label
\* and none for the last were scored: macro-F1 is 1/N.
C8_Witness ==
    /\ MetricsDone
    /\ report.hard_preds = hard_labels
    /\ Positives(1) > 0
    /\ Positives(N) = 0
    /\ report.per_label[1].f1 = FracOne
    /\ report.per_label[N].precision = FracZero
    /\ report.macro_f1 = Frac(1, N)

-----------------------------------------------------------------------------
(* kd_loss.  The arithmetic is exact.  A number is                         *)
(*     [n |-> n, d |-> d, e2 |-> a, e5 |-> b]  =  (n / d) * 2^a * 5^b      *)
(* with n an integer, d > 0, n and d coprime and divisible by neither 2    *)
(* nor 5 (zero is n = 0, d = 1, a = b = 0), so that 1e-9 and a teacher     *)
(* score far below it are both values of the type.  Logits are integer     *)
(* multiples of ln 2, so that exp() of a logit is a power of two; a log    *)
(* is taken only of a power of two, and the loss is then known in units    *)
(* of ln 2 (its sign is the sign of the loss).  Where a log of another     *)
(* number would be needed the model gives the loss no value.               *)

Abs(x) == IF x < 0 THEN -x ELSE x

Max(x, y) == IF x >= y THEN x ELSE y

Min(x, y) == IF x <= y THEN x ELSE y

\* How many times the prime f divides m (m # 0)
RECURSIVE Mult(_, _)
Mult(m, f) == IF m % f = 0 THEN 1 + Mult(m \div f, f) ELSE 0

QZero == [n |-> 0, d |-> 1, e2 |-> 0, e5 |-> 0]

Q(n, d, a, b) ==
    IF n = 0 THEN QZero ELSE
    LET g  == GCD(Abs(n), d)
        sg == IF n < 0 THEN -1 ELSE 1
        n1 == Abs(n) \div g
        d1 == d \div g
        n2 == Mult(n1, 2)
        n5 == Mult(n1, 5)
        d2 == Mult(d1, 2)
        d5 == Mult(d1, 5)
    IN [ n  |-> sg * (n1 \div (2^n2 * 5^n5)),
         d  |-> d1 \div (2^d2 * 5^d5),
         e2 |-> a + n2 - d2,
         e5 |-> b + n5 - d5 ]

QInt(k) == Q(k, 1, 0, 0)

QOne == QInt(1)

QMul(x, y) == Q(x.n * y.n, x.d * y.d, x.e2 + y.e2, x.e5 + y.e5)

\* x / y for y # 0
QDiv(x, y) ==
    Q((IF y.n < 0 THEN -1 ELSE 1) * x.n * y.d, x.d * Abs(y.n), x.e2 - y.e2, x.e5 - y.e5)

QAdd(x, y) ==
    IF x.n = 0 THEN y ELSE IF y.n = 0 THEN x ELSE
    LET a == Min(x.e2, y.e2)
        b == Min(x.e5, y.e5)
    IN Q(x.n * 2^(x.e2 - a) * 5^(x.e5 - b) * y.d + y.n * 2^(y.e2 - a) * 5^(y.e5 - b) * x.d,
         x.d * y.d, a, b)

\* base^e, computed only as far as needed to compare it with cap.
RECURSIVE PowUpTo(_, _, _)
PowUpTo(base, e, cap) ==
    IF e = 0 THEN 1
    ELSE LET r == PowUpTo(base, e - 1, cap) IN IF r > cap THEN r ELSE r * base

\* 2^a * 5^b > cap, for a, b, cap >= 0.
ScaleExceeds(a, b, cap) ==
    LET m2 == PowUpTo(2, a, cap)
    IN  IF m2 > cap THEN TRUE
        ELSE PowUpTo(5, b, cap \div m2) > cap \div m2

\* x >= 1 for x >= 0.
QGeqOne(x) ==
    IF x.n = 0 THEN FALSE
    ELSE IF x.e2 >= 0 /\ x.e5 >= 0 THEN ScaleExceeds(x.e2, x.e5, (x.d - 1) \div x.n)
    ELSE IF x.e2 <= 0 /\ x.e5 <= 0 THEN ~ScaleExceeds(-x.e2, -x.e5, x.n \div x.d)
    ELSE x.n * 2^Max(x.e2, 0) * 5^Max(x.e5, 0) >= x.d * 2^Max(-x.e2, 0) * 5^Max(-x.e5, 0)

\* x < y for x >= 0 and y > 0
QLess(x, y) == ~QGeqOne(QDiv(x, y))

RECURSIVE QSum(_, _)
QSum(v, k) == IF k = 0 THEN QZero ELSE QAdd(QSum(v, k - 1), v[k])

\* The integer whose t-th power is m, for m that has one
IRoot(m, t) == CHOOSE r \in 0..m : r^t = m

HasIRoot(m, t) == \E r \in 0..m : r^t = m

\* x ** (1.0 / t), for x >= 0 that has an exact root
QRoot(x, t) ==
    [n |-> IRoot(x.n, t), d |-> IRoot(x.d, t), e2 |-> x.e2 \div t, e5 |-> x.e5 \div t]

HasQRoot(x, t) ==
    x.n >= 0 /\ HasIRoot(x.n, t) /\ HasIRoot(x.d, t) /\ x.e2 % t = 0 /\ x.e5 % t = 0

RECURSIVE QPow(_, _)
QPow(x, t) == IF t = 0 THEN QOne ELSE QMul(x, QPow(x, t - 1))

IsPow2(x) == x.n = 1 /\ x.d = 1 /\ x.e5 = 0

\* log2 of a power of two
Log2(x) == x.e2

\* .clamp(min=1e-9)
clamp_floor == Q(1, 1, -9, -9)

clamp_min(x, lo) == IF QLess(x, lo) THEN lo ELSE x

\* teacher_soft = teacher_probs ** (1.0 / t)
\* teacher_soft = teacher_soft / teacher_soft.sum(dim=-1, keepdim=True).clamp(min=1e-9)
teacher_soft_of(teacher, t) ==
    LET powed == [i \in 1..N |-> QRoot(teacher[i], t)]
        denom == clamp_min(QSum(powed, N), clamp_floor)
    IN [i \in 1..N |-> QDiv(powed[i], denom)]

RECURSIVE SumPow2(_, _)
SumPow2(x, k) == IF k = 0 THEN 0 ELSE SumPow2(x, k - 1) + 2^(x[k])

\* F.log_softmax(student_logits / t, dim=-1), in units of ln 2; known when
\* the sum of the exponentials is a power of two
student_log_soft_of(student_logits, t) ==
    LET x == [i \in 1..N |-> student_logits[i] \div t]
        total == QInt(SumPow2(x, N))
    IN [ known |-> IsPow2(total),
         value |-> [i \in 1..N |-> x[i] - Log2(total)] ]

\* F.kl_div(input, target, reduction="batchmean") on a batch of one example:
\* the sum of target * (log(target) - input), an entry of target 0 giving 0
kl_div(input, target) ==
    LET term(i) ==
            IF target[i].n = 0 THEN QZero
            ELSE QMul(target[i], QInt(Log2(target[i]) - input.value[i]))
    IN [ known |-> \A i \in 1..N : target[i].n = 0 \/ (IsPow2(target[i]) /\ input.known),
         value |-> QSum([i \in 1..N |-> term(i)], N) ]

\* log2(1 + 2^z) lies in (max(z, 0), max(z, 0) + 1] and is 1 at z = 0
softplus_lo(z) == Max(z, 0)

softplus_hi(z) == Max(z, 0) + 1

\* F.binary_cross_entropy_with_logits(student_logits, labels, reduction="mean")
\* the mean of softplus(z) - y * z, between two bounds
bce_with_logits(student_logits, y) ==
    LET lo(i) == QAdd(QInt(softplus_lo(student_logits[i])),
                      QMul(y[i], QInt(-student_logits[i])))
        hi(i) == QAdd(QInt(softplus_hi(student_logits[i])),
                      QMul(y[i], QInt(-student_logits[i])))
    IN [ lo |-> QDiv(QSum([i \in 1..N |-> lo(i)], N), QInt(N)),
         hi |-> QDiv(QSum([i \in 1..N |-> hi(i)], N), QInt(N)) ]

kd_loss(student_logits, teacher, y, t, alpha_kl, alpha_ce) ==
    LET teacher_soft == teacher_soft_of(teacher, t)
        student_log_soft == student_log_soft_of(student_logits, t)
        kld == kl_div(student_log_soft, teacher_soft)
        kl == QMul(kld.value, QInt(t * t))
        ce == bce_with_logits(student_logits, y)
    IN [ teacher_soft |-> teacher_soft,
         known   |-> kld.known,
         kl      |-> IF kld.known THEN kl ELSE QZero,
         loss_lo |-> IF kld.known
                     THEN QAdd(QMul(alpha_kl, kl), QMul(alpha_ce, ce.lo)) ELSE QZero,
         loss_hi |-> IF kld.known
                     THEN QAdd(QMul(alpha_kl, kl), QMul(alpha_ce, ce.hi)) ELSE QZero ]

\* --alpha_kl 0.7 --alpha_ce 0.3 (the defaults)
default_alpha_kl == Q(7, 10, 0, 0)

default_alpha_ce == Q(3, 10, 0, 0)

\* --temperature (default 2.0)
Temperatures == {1, 2}

\* The t-th roots of the teacher scores the model feeds: ordinary ones (0,
\* 1/2, 1/4) and ones below the clamp floor (half and a quarter of 1e-9).
\* The scores are their t-th powers (for t = 2: 0, 0.25, 0.0625, 2.5e-19,
\* 6.25e-20), all in [0, 1].
OrdinaryRoots == {QZero, Q(1, 2, 0, 0), Q(1, 4, 0, 0)}

TinyRoots == {QZero, QMul(clamp_floor, Q(1, 2, 0, 0)), QMul(clamp_floor, Q(1, 4, 0, 0))}

\* The teacher vectors: the first two labels scored, both ordinary or both
\* tiny, the other labels 0.0
TeacherVectors(t) ==
    {[i \in 1..N |-> IF i = 1 THEN QPow(a, t) ELSE IF i = 2 THEN QPow(b, t) ELSE QZero] :
        a \in OrdinaryRoots, b \in OrdinaryRoots}
    \cup
    {[i \in 1..N |-> IF i = 1 THEN QPow(a, t) ELSE IF i = 2 THEN QPow(b, t) ELSE QZero] :
        a \in TinyRoots, b \in TinyRoots}

\* student_logits / t, in units of ln 2
BaseLogits ==
    { [i \in 1..N |-> 0],
      [i \in 1..N |-> IF i = 1 THEN 1 ELSE 0],
      [i \in 1..N |-> IF i = 1 THEN 4 ELSE IF i \in {2, 3} THEN 1 ELSE 0],
      [i \in 1..N |-> IF i = 2 THEN 4 ELSE IF i \in {1, 3} THEN 1 ELSE 0] }

\* labels: the hard vector of a human-labelled example, or the teacher
\* vector of an example whose teacher gave every label 0.0
LabelVectors ==
    { [i \in 1..N |-> QZero],
      [i \in 1..N |-> IF i = 1 THEN QOne ELSE QZero] }

\* The constants c the teacher vector is rescaled by: the t-th powers of
\* 2 and of half the clamp floor
ScaleRoots == {QInt(2), QMul(clamp_floor, Q(1, 2, 0, 0))}

InitKD ==
    /\ pc = "kd"
    /\ kdTemperature \in Temperatures
    /\ kdLogits \in {[i \in 1..N |-> kdTemperature * b[i]] : b \in BaseLogits}
    /\ kdTeacher \in TeacherVectors(kdTemperature)
    /\ kdLabels \in LabelVectors
    /\ kdScale = NoLoss
    /\ kdOut = NoLoss
    /\ kdOutScaled = NoLoss
    /\ IdleData
    /\ IdleLoad
    /\ IdleTrain
    /\ IdleMetrics

\* loss = kd_loss(outputs.logits, teacher_probs, labels, ...)
KDLoss ==
    /\ pc = "kd"
    /\ pc' = "kd_done"
    /\ kdOut' = kd_loss(kdLogits, kdTeacher, kdLabels, kdTemperature,
                        default_alpha_kl, default_alpha_ce)
    /\ UNCHANGED <<kdTemperature, kdLogits, kdTeacher, kdLabels, kdScale, kdOutScaled>>
    /\ UNCHANGED <<dataVars, loadVars, trainVars, metricVars>>

\* The same call with every teacher score multiplied by c > 0
KDLossRescaled ==
    /\ pc = "kd_done"
    /\ \E r \in ScaleRoots :
          LET c == QPow(r, kdTemperature)
              scaled == [i \in 1..N |-> QMul(c, kdTeacher[i])]
          IN
          /\ \A i \in 1..N : HasQRoot(scaled[i], kdTemperature)
          /\ kdScale' = c
          /\ kdOutScaled' = kd_loss(kdLogits, scaled, kdLabels, kdTemperature,
                                    default_alpha_kl, default_alpha_ce)
    /\ pc' = "kd_rescaled"
    /\ UNCHANGED <<kdTemperature, kdLogits, kdTeacher, kdLabels, kdOut>>
    /\ UNCHANGED <<dataVars, loadVars, trainVars, metricVars>>

NextKD == KDLoss \/ KDLossRescaled

SpecKD == InitKD /\ [][NextKD]_vars

IsZeroVector(v) == \A i \in 1..N : v[i].n = 0

InUnitQ(x) == x.n >= 0 /\ (x.n = 0 \/ ~QLess(QOne, x))

\* C9 (as claimed): for every c > 0 the renormalized teacher distribution
\* computed from c * teacher_probs, and with it the KL term, equals the one
\* computed from teacher_probs.
C9_RescalingLeavesTeacherSoft ==
    pc = "kd_rescaled" =>
        /\ kdOutScaled.teacher_soft = kdOut.teacher_soft
        /\ (kdOut.known /\ kdOutScaled.known) => kdOutScaled.kl = kdOut.kl

\* C10 (as claimed): for finite logits and a teacher vector with entries in
\* [0,1], the zero vector included, the loss is >= 0 (and a number).
C10_LossNonNegative ==
    (/\ pc = "kd_done"
     /\ \A i \in 1..N : InUnitQ(kdTeacher[i])
     /\ kdOut.known) =>
        kdOut.loss_hi.n >= 0

====
